---- MODULE Spec2Model ----
(***************************************************************************)
(* Model of the two notebooks of the repository.                           *)
(*                                                                         *)
(* Part A: notebooks/landlab-terrainbento/coupled_process_elements/        *)
(*         model_basicVs_steady_solution.ipynb: the run_to_steady output   *)
(*         writer, the model.run() loop that drives it and the cells that  *)
(*         follow the run (slope-area plot, removal of the NetCDF files).  *)
(* Part B: the slope-area plot's node selection, as a function of a grid.  *)
(* Part C: notebooks/pymt/index.ipynb (second document): the sequence of   *)
(*         calls the Ku notebook makes on its model instances.             *)
(*                                                                         *)
(* Elevations and times are integers: every time the notebook's parameters *)
(* produce is a whole number, and elevations are drawn from a few levels   *)
(* that are multiples of the tolerance.  What the erosion model does to    *)
(* the elevations during run_for is library code: it is a nondeterministic *)
(* choice of the new elevation field.                                      *)
(***************************************************************************)
EXTENDS Integers, Sequences, FiniteSets, TLC

VARIABLES
    pc,          \* position in the notebook: which call runs next
    z,           \* model.z: topographic__elevation at every node
    last_z,      \* run_to_steady.last_z
    model_time,  \* model._model_time
    clock_stop,  \* model.clock.stop
    iteration,   \* model.iteration
    files,       \* the output NetCDF files on disk, by iteration number
    printed,     \* the T of every "Model reached steady state in T" line
    chk,         \* the latest run_one_step invocation of the output writer
    steady,      \* the first successful steady-state check
    plotted,     \* what the slope-area cell read from the grid
    \* Part B
    gpc,            \* "idle", "grid" (a grid is given), "selected"
    shape,          \* the raster grid's (rows, columns)
    status_at_node, \* grid.status_at_node
    plot_nodes,     \* the plotting_nodes array the cell computed
    \* Part C
    kpc,            \* "idle", "cells", the Part 4 loop's positions, "done", "error"
    kidx,           \* the next call of the straight-line cells
    ku,             \* the instance the name ku is bound to (0: none)
    inst,           \* the Ku instances
    config_file,    \* Part 1's config_file, run_folder: what a setup returned
    args,           \* the name args: what a setup returned
    n_steps,        \* Part 4
    i,              \* the for loop's index
    kcall,          \* the latest call on an instance, and the instance before it
    ku_start_year   \* the Ku library's default start_year

vsVars == <<pc, z, last_z, model_time, clock_stop, iteration, files, printed,
            chk, steady, plotted>>

gridVars == <<gpc, shape, status_at_node, plot_nodes>>

kuVars == <<kpc, kidx, ku, inst, config_file, args, n_steps, i, kcall,
            ku_start_year>>

vars == <<vsVars, gridVars, kuVars>>

----------------------------------------------------------------------------
(* Bounds of the model *)

\* model.run() is followed for at most this many passes of its while loop
MaxOutputs == 3

\* elevations are 0, Tolerance, ..., MaxLevel * Tolerance
MaxLevel == 2

----------------------------------------------------------------------------
(* The notebook's parameters *)

ClockStart == 0
ClockStep == 10
ClockStop == 10000000
OutputInterval == 10000
Tolerance == 20
save_first_timestep == TRUE

\* The raster grid, scaled down from the notebook's (25, 40): 3 rows, 4 columns,
\* nodes numbered row by row, the perimeter nodes boundary nodes.
GridShape == <<3, 4>>
Nodes == 0 .. (GridShape[1] * GridShape[2] - 1)
RowOf(n) == n \div GridShape[2]
ColOf(n) == n % GridShape[2]
IsPerimeter(n) ==
    \/ RowOf(n) = 0
    \/ RowOf(n) = GridShape[1] - 1
    \/ ColOf(n) = 0
    \/ ColOf(n) = GridShape[2] - 1
core_nodes == {n \in Nodes : ~IsPerimeter(n)}

ElevLevels == {k * Tolerance : k \in 0 .. MaxLevel}

\* The elevation fields the erosion model can leave behind: any level at each
\* core node, one common level at the boundary nodes (the base level).
ElevFields ==
    {[n \in Nodes |-> IF n \in core_nodes THEN c[n] ELSE b] :
        c \in [core_nodes -> ElevLevels], b \in ElevLevels}

\* "random" where CORE_NODE, in [0, 1): in whole metres, zero everywhere
InitialElevation == [n \in Nodes |-> 0]

----------------------------------------------------------------------------
(* run_to_steady *)

Abs(x) == IF x < 0 THEN -x ELSE x

SetMax(S) == CHOOSE m \in S : \A x \in S : x <= m

Min(a, b) == IF a <= b THEN a ELSE b

\* diff = z[core_nodes] - last_z[core_nodes]; max(abs(diff))
MaxAbsDiff(zz, lz) == SetMax({Abs(zz[n] - lz[n]) : n \in core_nodes})

\* if model.model_time > 0:
ChecksAt_from0(t) == t >= 0
ChecksAt(t) == t > 0

\* if max(abs(diff)) <= self.tolerance:
Converged_inverted(zz, lz) == MaxAbsDiff(zz, lz) > Tolerance
Converged_strict(zz, lz) == MaxAbsDiff(zz, lz) < Tolerance
Converged(zz, lz) == MaxAbsDiff(zz, lz) <= Tolerance

\* self.model.clock.stop = model._model_time
StopAtSteady_late(t) == t + OutputInterval
StopAtSteady(t) == t

\* if model._model_time <= self.model.clock.stop - self.model.output_interval:
\*     self.model.clock.stop += self.model.output_interval
ExtendedStop_unextended(t, stop) == stop
ExtendedStop_strict(t, stop) ==
    IF t < stop - OutputInterval THEN stop + OutputInterval ELSE stop
ExtendedStop(t, stop) ==
    IF t <= stop - OutputInterval THEN stop + OutputInterval ELSE stop

\* run_to_steady.run_one_step, with the record of the invocation
run_one_step ==
    IF ChecksAt(model_time)
    THEN IF Converged(z, last_z)
         THEN /\ clock_stop' = StopAtSteady(model_time)
              /\ printed' = Append(printed, model_time)
              /\ last_z' = last_z
              /\ chk' = [time |-> model_time, checked |-> TRUE,
                         converged |-> TRUE, z |-> z, last_z |-> last_z]
              /\ steady' = IF steady.found THEN steady
                           ELSE [found |-> TRUE, time |-> model_time, z |-> z]
         ELSE /\ last_z' = z
              /\ clock_stop' = ExtendedStop(model_time, clock_stop)
              /\ printed' = printed
              /\ chk' = [time |-> model_time, checked |-> TRUE,
                         converged |-> FALSE, z |-> z, last_z |-> last_z]
              /\ steady' = steady
    ELSE /\ UNCHANGED <<clock_stop, printed, last_z, steady>>
         /\ chk' = [time |-> model_time, checked |-> FALSE,
                    converged |-> FALSE, z |-> z, last_z |-> last_z]

----------------------------------------------------------------------------
(* model.run() *)

\* run_for(step, runtime): the loop calls run_one_step(step) while
\* elapsed_time + step < runtime, then once more with the step cut to what is
\* left of runtime.  FullSteps is the number of uncut steps of that loop.
FullSteps(step, runtime) ==
    CHOOSE k \in 0 .. (IF runtime > 0 THEN runtime \div step ELSE 0) :
        /\ (k + 1) * step >= runtime
        /\ k = 0 \/ k * step < runtime

\* the model time run_for adds: the uncut steps, then the cut one
RunForElapsed(step, runtime) ==
    LET elapsed == FullSteps(step, runtime) * step
    IN  elapsed + (runtime - elapsed)

\* write_output: the NetCDF file of this iteration, then the output writers
write_output ==
    /\ files' = files \cup {iteration}
    /\ run_one_step

\* run(), up to the while loop: the first output when save_first_timestep
RunStart ==
    /\ pc = "run"
    /\ IF save_first_timestep
       THEN write_output
       ELSE UNCHANGED <<files, clock_stop, printed, last_z, chk, steady>>
    /\ iteration' = 1
    /\ pc' = "loop"
    /\ UNCHANGED <<gridVars, kuVars>>
    /\ UNCHANGED <<z, model_time, plotted>>

\* while time_now < self.clock.stop:
LoopContinues_inclusive(t, stop) == t <= stop
LoopContinues(t, stop) == t < stop

\* one pass of the while loop, first half: run_for to the next pause
RunFor ==
    /\ pc = "loop"
    /\ LoopContinues(model_time, clock_stop)
    /\ iteration <= MaxOutputs
    /\ LET next_run_pause == Min(model_time + OutputInterval, clock_stop)
       IN  model_time' =
               model_time + RunForElapsed(ClockStep, next_run_pause - model_time)
    /\ z' \in ElevFields
    /\ pc' = "write_output"
    /\ UNCHANGED <<gridVars, kuVars>>
    /\ UNCHANGED <<last_z, clock_stop, iteration, files, printed, chk, steady,
                   plotted>>

\* one pass of the while loop, second half: write_output, iteration += 1
WriteOutput ==
    /\ pc = "write_output"
    /\ write_output
    /\ iteration' = iteration + 1
    /\ pc' = "loop"
    /\ UNCHANGED <<gridVars, kuVars>>
    /\ UNCHANGED <<z, model_time, plotted>>

\* the while loop ends; finalize() does nothing; model.run() returns
RunReturns ==
    /\ pc = "loop"
    /\ ~LoopContinues(model_time, clock_stop)
    /\ pc' = "plot"
    /\ UNCHANGED <<gridVars, kuVars>>
    /\ UNCHANGED <<z, last_z, model_time, clock_stop, iteration, files, printed,
                   chk, steady, plotted>>

----------------------------------------------------------------------------
(* The slope-area plot's nodes, for a raster grid of shape sh whose nodes have
   the statuses st *)

NodeIds(sh) == 0 .. (sh[1] * sh[2] - 1)

\* the node at (row, column), -1 when there is none
NodeAt(sh, r, c) ==
    IF r >= 0 /\ r < sh[1] /\ c >= 0 /\ c < sh[2] THEN r * sh[2] + c ELSE -1

\* the four adjacent nodes (east, north, west, south) and the four diagonal
\* ones (north-east, north-west, south-west, south-east) of node n
AdjacentNodes(sh, n) ==
    LET r == n \div sh[2]
        c == n % sh[2]
    IN  <<NodeAt(sh, r, c + 1), NodeAt(sh, r + 1, c),
          NodeAt(sh, r, c - 1), NodeAt(sh, r - 1, c)>>

DiagonalNodes(sh, n) ==
    LET r == n \div sh[2]
        c == n % sh[2]
    IN  <<NodeAt(sh, r + 1, c + 1), NodeAt(sh, r + 1, c - 1),
          NodeAt(sh, r - 1, c - 1), NodeAt(sh, r - 1, c + 1)>>

\* status_at_node[k], an index of -1 reading the last node as in Python
StatusAt(sh, st, k) == IF k < 0 THEN st[sh[1] * sh[2] + k] ELSE st[k]

\* grid.node_has_boundary_neighbor(ids), method "d8", for one id: a neighbour
\* among the eight whose status is not CORE
node_has_boundary_neighbor(sh, st, n) ==
    \/ \E k \in 1 .. 4 : StatusAt(sh, st, AdjacentNodes(sh, n)[k]) # "CORE"
    \/ \E k \in 1 .. 4 : StatusAt(sh, st, DiagonalNodes(sh, n)[k]) # "CORE"

\* the elements of a set of integers in ascending order
RECURSIVE Ascending(_)
Ascending(S) ==
    IF S = {} THEN <<>>
    ELSE LET m == CHOOSE x \in S : \A y \in S : x <= y
         IN  <<m>> \o Ascending(S \ {m})

\* grid.core_nodes: the ids of the core nodes, ascending
CoreNodeArray(sh, st) == Ascending({n \in NodeIds(sh) : st[n] = "CORE"})

\* core_not_boundary = np.array(node_has_boundary_neighbor(core_nodes)) == False
core_not_boundary_unnegated(sh, st) ==
    LET core == CoreNodeArray(sh, st)
    IN  [k \in 1 .. Len(core) |-> node_has_boundary_neighbor(sh, st, core[k]) = TRUE]
core_not_boundary(sh, st) ==
    LET core == CoreNodeArray(sh, st)
    IN  [k \in 1 .. Len(core) |-> node_has_boundary_neighbor(sh, st, core[k]) = FALSE]

\* array[mask]: the elements of array at the positions where mask is True
RECURSIVE BooleanIndex(_, _)
BooleanIndex(array, mask) ==
    IF array = <<>> THEN <<>>
    ELSE (IF Head(mask) THEN <<Head(array)>> ELSE <<>>)
             \o BooleanIndex(Tail(array), Tail(mask))

\* plotting_nodes = model.grid.core_nodes[core_not_boundary]
plotting_nodes(sh, st) ==
    BooleanIndex(CoreNodeArray(sh, st), core_not_boundary(sh, st))

\* the statuses of the notebook's grid: the perimeter fixed-value boundary, the
\* rest core
GridStatus ==
    [n \in Nodes |-> IF IsPerimeter(n) THEN "FIXED_VALUE" ELSE "CORE"]

----------------------------------------------------------------------------
(* The cells after the run *)

\* MAKE SLOPE-AREA PLOT: reads drainage_area and topographic__steepest_slope
\* from model.grid as it is now
SlopeAreaPlot ==
    /\ pc = "plot"
    /\ plotted' = [done |-> TRUE, time |-> model_time, z |-> z,
                   nodes |-> plotting_nodes(GridShape, GridStatus)]
    /\ pc' = "remove"
    /\ UNCHANGED <<gridVars, kuVars>>
    /\ UNCHANGED <<z, last_z, model_time, clock_stop, iteration, files, printed,
                   chk, steady>>

\* save_to_xarray_dataset is commented out; model.remove_output_netcdfs()
RemoveOutputNetcdfs ==
    /\ pc = "remove"
    /\ files' = {}
    /\ pc' = "imshow"
    /\ UNCHANGED <<gridVars, kuVars>>
    /\ UNCHANGED <<z, last_z, model_time, clock_stop, iteration, printed, chk,
                   steady, plotted>>

\* imshow_grid(model.grid, "topographic__elevation"): the last code cell
ImshowGrid ==
    /\ pc = "imshow"
    /\ pc' = "done"
    /\ UNCHANGED <<gridVars, kuVars>>
    /\ UNCHANGED <<z, last_z, model_time, clock_stop, iteration, files, printed,
                   chk, steady, plotted>>

----------------------------------------------------------------------------
(* Part B as a state machine: a raster grid is given, the plot cell selects *)

\* grids have 3 to 5 rows and 3 .. MaxColumns columns
MaxColumns == 5
RowCounts == 3 .. 5

Interior(sh) ==
    {n \in NodeIds(sh) :
        /\ (n \div sh[2]) \notin {0, sh[1] - 1}
        /\ (n % sh[2]) \notin {0, sh[2] - 1}}

\* the perimeter nodes are fixed-value boundary nodes; every other node is a
\* core node or a closed boundary node
RasterStatuses(sh) ==
    {[n \in NodeIds(sh) |->
        IF n \notin Interior(sh) THEN "FIXED_VALUE"
        ELSE IF n \in C THEN "CORE" ELSE "CLOSED"] : C \in SUBSET Interior(sh)}

GridIdle ==
    /\ gpc = "idle"
    /\ shape = GridShape
    /\ status_at_node = GridStatus
    /\ plot_nodes = <<>>

SelectPlottingNodes ==
    /\ gpc = "grid"
    /\ plot_nodes' = plotting_nodes(shape, status_at_node)
    /\ gpc' = "selected"
    /\ UNCHANGED <<shape, status_at_node>>
    /\ UNCHANGED <<vsVars, kuVars>>

----------------------------------------------------------------------------
(* Part C: the Ku notebook *)

\* "Time-series are annual values and run from 1961-2015"
FirstDataYear == 1961
LastDataYear == 2015
DataRows == LastDataYear - FirstDataYear + 1

\* ku.setup(end_year=2050)
Part4EndYear == 2050

\* The notebook never sets start_year: it is the library's default.  The years
\* tried are those around Part4EndYear - DataRows, so that n_steps falls below,
\* on and above the number of data rows.
StartYearSpread == 1
KuStartYears ==
    (Part4EndYear - DataRows - StartYearSpread) ..
        (Part4EndYear - DataRows + StartYearSpread)

InstanceIds == 1 .. 2
NoToken == <<0, 0>>

NoInstance ==
    [made |-> FALSE, setups |-> 0, end_year |-> 0, initialized |-> FALSE,
     init_arg |-> NoToken, inits |-> 0, updates |-> 0, since_init |-> 0,
     time |-> 0, end_time |-> 0, time_step |-> 1, finalizes |-> 0]

\* The calls of the code cells, in cell order.
\* ku = pymt.models.Ku(); Part 1
Part1 ==
    << [op |-> "new"],
       [op |-> "setup", into |-> "config_file", end_year |-> 0],
       [op |-> "initialize", from |-> "config_file"],
       [op |-> "update"],
       [op |-> "output_var_names"],
       [op |-> "get_value"] >>

\* each of the two runs of Part 2 and of Part 3: args = ku.setup(...);
\* ku.initialize(*args); ku.update(); ku.get_value(...)
ParamRun_staleArgs ==
    << [op |-> "setup", into |-> "args", end_year |-> 0],
       [op |-> "initialize", from |-> "config_file"],
       [op |-> "update"],
       [op |-> "get_value"] >>
ParamRun ==
    << [op |-> "setup", into |-> "args", end_year |-> 0],
       [op |-> "initialize", from |-> "args"],
       [op |-> "update"],
       [op |-> "get_value"] >>

\* Part 4: ku = pymt.models.Ku(); args = ku.setup(end_year=2050);
\* ku.initialize(*args)
Part4Head_sameInstance ==
    << [op |-> "output_var_names"],
       [op |-> "setup", into |-> "args", end_year |-> Part4EndYear],
       [op |-> "initialize", from |-> "args"] >>
Part4Head ==
    << [op |-> "new"],
       [op |-> "setup", into |-> "args", end_year |-> Part4EndYear],
       [op |-> "initialize", from |-> "args"] >>

Program == Part1 \o ParamRun \o ParamRun \o ParamRun \o ParamRun \o Part4Head

\* the call record: the call, the instance it is made on and that instance's
\* state when the call is made
CallOn(op, id, arg) ==
    [op |-> op, inst |-> id, arg |-> arg,
     initialized |-> inst[id].initialized,
     latest_setup |-> <<id, inst[id].setups>>,
     since_init |-> inst[id].since_init]

\* after a straight-line call: the next one, or Part 4's loop cell
Advance ==
    /\ kidx' = kidx + 1
    /\ kpc' = IF kidx = Len(Program) THEN "n_steps" ELSE "cells"

AtCall(op) == kpc = "cells" /\ Program[kidx].op = op

\* ku = pymt.models.Ku()
KuNew ==
    /\ AtCall("new")
    /\ LET id == Cardinality({k \in InstanceIds : inst[k].made}) + 1
       IN  /\ ku' = id
           /\ inst' = [inst EXCEPT ![id] = [NoInstance EXCEPT !.made = TRUE]]
           /\ kcall' = [op |-> "new", inst |-> id, arg |-> NoToken,
                        initialized |-> FALSE, latest_setup |-> NoToken,
                        since_init |-> 0]
    /\ Advance
    /\ UNCHANGED <<config_file, args, n_steps, i, ku_start_year>>
    /\ UNCHANGED <<vsVars, gridVars>>

\* name = ku.setup(...): returns the (config_file, run_folder) it wrote
KuSetup ==
    /\ AtCall("setup")
    /\ LET call == Program[kidx]
           token == <<ku, inst[ku].setups + 1>>
       IN  /\ kcall' = CallOn("setup", ku, NoToken)
           /\ inst' = [inst EXCEPT ![ku].setups = @ + 1,
                                   ![ku].end_year = call.end_year]
           /\ IF call.into = "config_file"
              THEN config_file' = token /\ args' = args
              ELSE args' = token /\ config_file' = config_file
    /\ Advance
    /\ UNCHANGED <<ku, n_steps, i, ku_start_year>>
    /\ UNCHANGED <<vsVars, gridVars>>

\* the end time of a run set up with end_year
EndTime(end_year) == end_year - ku_start_year

\* ku.initialize(config_file, run_folder) / ku.initialize(*args)
KuInitialize ==
    /\ AtCall("initialize")
    /\ LET arg == IF Program[kidx].from = "config_file" THEN config_file ELSE args
       IN  /\ kcall' = CallOn("initialize", ku, arg)
           /\ inst' = [inst EXCEPT ![ku].initialized = TRUE,
                                   ![ku].init_arg = arg,
                                   ![ku].inits = @ + 1,
                                   ![ku].since_init = 0,
                                   ![ku].time = 0,
                                   ![ku].end_time = EndTime(inst[ku].end_year)]
    /\ Advance
    /\ UNCHANGED <<ku, config_file, args, n_steps, i, ku_start_year>>
    /\ UNCHANGED <<vsVars, gridVars>>

\* ku.update(): one time step
Updated(id) ==
    [inst EXCEPT ![id].updates = @ + 1,
                 ![id].since_init = @ + 1,
                 ![id].time = @ + inst[id].time_step]

KuUpdate ==
    /\ AtCall("update")
    /\ kcall' = CallOn("update", ku, NoToken)
    /\ inst' = Updated(ku)
    /\ Advance
    /\ UNCHANGED <<ku, config_file, args, n_steps, i, ku_start_year>>
    /\ UNCHANGED <<vsVars, gridVars>>

\* ku.output_var_names: an attribute, no call of the interface
KuOutputVarNames ==
    /\ AtCall("output_var_names")
    /\ Advance
    /\ UNCHANGED <<ku, inst, config_file, args, n_steps, i, kcall, ku_start_year>>
    /\ UNCHANGED <<vsVars, gridVars>>

\* ku.get_value('soil__active_layer_thickness')
KuGetValue ==
    /\ AtCall("get_value")
    /\ kcall' = CallOn("get_value", ku, NoToken)
    /\ Advance
    /\ UNCHANGED <<ku, inst, config_file, args, n_steps, i, ku_start_year>>
    /\ UNCHANGED <<vsVars, gridVars>>

\* int(x / y) for y > 0: the quotient cut towards zero
IntQuotient(x, y) == IF x >= 0 THEN x \div y ELSE -((-x) \div y)

\* n_steps = int((ku.end_time - ku.time) / ku.time_step)
NSteps(id) == IntQuotient(inst[id].end_time - inst[id].time, inst[id].time_step)

KuNSteps ==
    /\ kpc = "n_steps"
    /\ n_steps' = NSteps(ku)
    /\ i' = 0
    /\ kpc' = "for"
    /\ UNCHANGED <<kidx, ku, inst, config_file, args, kcall, ku_start_year>>
    /\ UNCHANGED <<vsVars, gridVars>>

\* for i in range(n_steps):
ForNext ==
    /\ kpc = "for"
    /\ kpc' = IF i < n_steps THEN "set_maat" ELSE "plot"
    /\ UNCHANGED <<kidx, ku, inst, config_file, args, n_steps, i, kcall,
                   ku_start_year>>
    /\ UNCHANGED <<vsVars, gridVars>>

\* maat.values[i], tamp.values[i], snow_depth.values[i]: IndexError past the
\* last row of the data
IndexInRange(k) == k < DataRows

AfterSetValue ==
    [set_maat |-> "set_tamp", set_tamp |-> "set_snow", set_snow |-> "update"]

\* the three ku.set_value(name, series.values[i]) of the loop body
LoopSetValue ==
    /\ kpc \in DOMAIN AfterSetValue
    /\ IF IndexInRange(i)
       THEN /\ kcall' = CallOn("set_value", ku, NoToken)
            /\ kpc' = AfterSetValue[kpc]
       ELSE /\ kcall' = kcall
            /\ kpc' = "error"
    /\ UNCHANGED <<kidx, ku, inst, config_file, args, n_steps, i, ku_start_year>>
    /\ UNCHANGED <<vsVars, gridVars>>

LoopUpdate ==
    /\ kpc = "update"
    /\ kcall' = CallOn("update", ku, NoToken)
    /\ inst' = Updated(ku)
    /\ kpc' = "get_value"
    /\ UNCHANGED <<kidx, ku, config_file, args, n_steps, i, ku_start_year>>
    /\ UNCHANGED <<vsVars, gridVars>>

\* thickness[i] = ku.get_value('soil__active_layer_thickness')
LoopGetValue ==
    /\ kpc = "get_value"
    /\ kcall' = CallOn("get_value", ku, NoToken)
    /\ i' = i + 1
    /\ kpc' = "for"
    /\ UNCHANGED <<kidx, ku, inst, config_file, args, n_steps, ku_start_year>>
    /\ UNCHANGED <<vsVars, gridVars>>

\* plt.plot(thickness): the last code cell
PlotThickness ==
    /\ kpc = "plot"
    /\ kpc' = "done"
    /\ UNCHANGED <<kidx, ku, inst, config_file, args, n_steps, i, kcall,
                   ku_start_year>>
    /\ UNCHANGED <<vsVars, gridVars>>

KuRest ==
    /\ kidx = 1
    /\ ku = 0
    /\ inst = [id \in InstanceIds |-> NoInstance]
    /\ config_file = NoToken
    /\ args = NoToken
    /\ n_steps = 0
    /\ i = 0
    /\ kcall = [op |-> "none", inst |-> 0, arg |-> NoToken, initialized |-> FALSE,
                latest_setup |-> NoToken, since_init |-> 0]

KuIdle ==
    /\ kpc = "idle"
    /\ KuRest
    /\ ku_start_year = Part4EndYear - DataRows

\* the kernel after the two import cells
InitKu ==
    /\ kpc = "cells"
    /\ KuRest
    /\ ku_start_year \in KuStartYears

----------------------------------------------------------------------------

\* BasicVs.from_dict(params, output_writers={"class": [run_to_steady]}):
\* the model and, in run_to_steady.__init__, last_z = model.z.copy()
InitVs ==
    /\ pc = "run"
    /\ z = InitialElevation
    /\ last_z = InitialElevation
    /\ model_time = ClockStart
    /\ clock_stop = ClockStop
    /\ iteration = 0
    /\ files = {}
    /\ printed = <<>>
    /\ chk = [time |-> ClockStart, checked |-> FALSE, converged |-> FALSE,
              z |-> InitialElevation, last_z |-> InitialElevation]
    /\ steady = [found |-> FALSE, time |-> ClockStart, z |-> InitialElevation]
    /\ plotted = [done |-> FALSE, time |-> ClockStart, z |-> InitialElevation,
                  nodes |-> <<>>]

\* the BasicVs notebook not being run
VsIdle ==
    /\ pc = "idle"
    /\ z = InitialElevation
    /\ last_z = InitialElevation
    /\ model_time = ClockStart
    /\ clock_stop = ClockStop
    /\ iteration = 0
    /\ files = {}
    /\ printed = <<>>
    /\ chk = [time |-> ClockStart, checked |-> FALSE, converged |-> FALSE,
              z |-> InitialElevation, last_z |-> InitialElevation]
    /\ steady = [found |-> FALSE, time |-> ClockStart, z |-> InitialElevation]
    /\ plotted = [done |-> FALSE, time |-> ClockStart, z |-> InitialElevation,
                  nodes |-> <<>>]

Init == InitVs /\ GridIdle /\ KuIdle

Next ==
    \/ RunStart
    \/ RunFor
    \/ WriteOutput
    \/ RunReturns
    \/ SlopeAreaPlot
    \/ RemoveOutputNetcdfs
    \/ ImshowGrid

Spec == Init /\ [][Next]_vars

\* Part B: any raster grid within the bounds, then the selection
InitGrid ==
    /\ gpc = "grid"
    /\ shape \in {<<r, c>> : r \in RowCounts, c \in 3 .. MaxColumns}
    /\ status_at_node \in RasterStatuses(shape)
    /\ plot_nodes = <<>>
    /\ VsIdle
    /\ KuIdle

NextGrid == SelectPlottingNodes

SpecGrid == InitGrid /\ [][NextGrid]_vars

\* run_to_steady.run_one_step on its own: model.run() calls write_output at a
\* model time that is a whole number of output intervals and not past
\* clock.stop, with clock.stop any number of half output intervals ahead (as
\* other clock.stop values than the notebook's give), and with any elevations
MaxStopLead == 3

InitCheck ==
    /\ pc = "write_output"
    /\ z \in ElevFields
    /\ last_z \in ElevFields
    /\ model_time \in {k * OutputInterval : k \in 0 .. MaxOutputs}
    /\ clock_stop \in
          {model_time + j * (OutputInterval \div 2) : j \in 0 .. MaxStopLead}
    /\ iteration = 1
    /\ files = {0}
    /\ printed = <<>>
    /\ chk = [time |-> ClockStart, checked |-> FALSE, converged |-> FALSE,
              z |-> InitialElevation, last_z |-> InitialElevation]
    /\ steady = [found |-> FALSE, time |-> ClockStart, z |-> InitialElevation]
    /\ plotted = [done |-> FALSE, time |-> ClockStart, z |-> InitialElevation,
                  nodes |-> <<>>]
    /\ GridIdle
    /\ KuIdle

NextCheck == WriteOutput

SpecCheck == InitCheck /\ [][NextCheck]_vars

\* Part C: the Ku notebook's code cells run in order
InitKuNotebook == InitKu /\ VsIdle /\ GridIdle

NextKu ==
    \/ KuNew
    \/ KuSetup
    \/ KuInitialize
    \/ KuUpdate
    \/ KuOutputVarNames
    \/ KuGetValue
    \/ KuNSteps
    \/ ForNext
    \/ LoopSetValue
    \/ LoopUpdate
    \/ LoopGetValue
    \/ PlotThickness

SpecKu == InitKuNotebook /\ [][NextKu]_vars

----------------------------------------------------------------------------
(* Properties of the BasicVs notebook *)

AfterRun == {"plot", "remove", "imshow", "done"}

\* every core node changed by at most the tolerance between two fields
CoreChangeWithin(zz, lz) == \A n \in core_nodes : Abs(zz[n] - lz[n]) <= Tolerance

\* C1: when model.run() has returned, the last invocation of run_one_step was a
\* check, it ran at the model time the run ended at, and it found the change of
\* every core node since last_z within the tolerance.
C1_RunEndsAtSteadyState ==
    pc \in AfterRun =>
        /\ chk.checked
        /\ chk.time = model_time
        /\ CoreChangeWithin(z, chk.last_z)
        /\ steady.found

\* a run that passed a failed check and ended at the second output time
C1_Witness ==
    /\ pc = "plot"
    /\ model_time = 2 * OutputInterval
    /\ chk.checked

\* model.run() is at an output time t > 0 and no core node has changed by more
\* than the tolerance since the previous output time
SteadyAtOutput ==
    /\ pc = "write_output"
    /\ model_time > 0
    /\ CoreChangeWithin(z, chk.z)

\* C2: a check at an output time t > 0 at which no core node has changed by
\* more than the tolerance since the previous output time ends the run there:
\* the step that makes the check leaves the while loop's condition false with
\* time and elevation as they were, and once a check has succeeded the loop is
\* never entered again (no run_for, no further write_output): what remains is
\* the return of model.run() and the cells after it, none of which can block.
C2_StopsAtEarliestSteadyOutput ==
    /\ [][SteadyAtOutput
          => (/\ pc' = "loop"
              /\ steady'.found
              /\ model_time' = model_time
              /\ z' = z
              /\ ~(model_time' < clock_stop'))]_vars
    /\ [](steady.found =>
            /\ pc \in {"loop"} \cup AfterRun
            /\ pc = "loop" => ~(model_time < clock_stop)
            /\ steady.time = model_time)

\* the run stopped at the second output time, the first check having failed
C2_Witness ==
    /\ pc = "loop"
    /\ steady.found
    /\ steady.time = 2 * OutputInterval
    /\ ~(model_time < clock_stop)

\* C3: when the last code cell has run, a NetCDF file of the topography is on
\* disk.
C3_NetcdfFileOnDisk == pc = "done" => files # {}

\* C4: from the successful check on, elevation and model time stay what the
\* check saw, and the slope-area cell reads the grid in that state.
C4_PlotAtSteadyState ==
    /\ plotted.done => steady.found
    /\ steady.found =>
        /\ z = steady.z
        /\ model_time = steady.time
        /\ plotted.done => (plotted.z = steady.z /\ plotted.time = steady.time)

\* the plot cell has run after a run that took two output intervals
C4_Witness ==
    /\ plotted.done
    /\ steady.found
    /\ steady.time = 2 * OutputInterval

\* C5: the message is printed at most once, and when model.run() has returned
\* exactly once, with T the time of the successful check, clock.stop and the
\* model time both T, and T a positive multiple of output_interval.
C5_MessageOnceAtStopTime ==
    /\ Len(printed) <= 1
    /\ pc \in AfterRun =>
        /\ Len(printed) = 1
        /\ printed[1] = steady.time
        /\ printed[1] = chk.time
        /\ clock_stop = printed[1]
        /\ model_time = printed[1]
        /\ printed[1] % OutputInterval = 0
        /\ printed[1] >= OutputInterval

\* the smallest T: the run ends at the first output time
C5_Witness ==
    /\ pc = "plot"
    /\ printed = <<OutputInterval>>

\* C10: a check takes the converged branch exactly when every core node has
\* changed by at most the tolerance since last_z, whatever the boundary nodes
\* did.
C10_DecisionCoreInclusive ==
    chk.checked => (chk.converged <=> CoreChangeWithin(chk.z, chk.last_z))

\* converged with a core node changed by exactly the tolerance and the
\* boundary nodes by more
C10_Witness ==
    /\ chk.checked
    /\ chk.converged
    /\ \E n \in core_nodes : Abs(chk.z[n] - chk.last_z[n]) = Tolerance
    /\ \E b \in Nodes \ core_nodes : Abs(chk.z[b] - chk.last_z[b]) > Tolerance

\* a check is about to run (model time > 0) and none has succeeded before
CheckBeforeConvergence ==
    /\ pc = "write_output"
    /\ model_time > 0
    /\ ~steady.found

\* C11: at every check before convergence clock.stop - model_time is the
\* initial stop minus output_interval; a check that fails finds
\* model_time <= clock.stop - output_interval, extends clock.stop by
\* output_interval and leaves model_time < clock.stop; so as long as no check
\* has succeeded the while loop's condition holds and model.run() has not
\* returned, whatever the model time.
C11_StopKeepsAhead ==
    /\ [](CheckBeforeConvergence =>
            clock_stop - model_time = ClockStop - OutputInterval)
    /\ [][(CheckBeforeConvergence /\ ~CoreChangeWithin(z, last_z))
          => (/\ model_time <= clock_stop - OutputInterval
              /\ clock_stop' = clock_stop + OutputInterval
              /\ model_time' < clock_stop'
              /\ clock_stop' - model_time' = ClockStop)]_vars
    /\ [](~steady.found =>
            /\ pc \notin AfterRun
            /\ pc = "loop" => model_time < clock_stop)

\* the third check, after two that failed: clock.stop has been extended twice
C11_Witness ==
    /\ CheckBeforeConvergence
    /\ model_time = 3 * OutputInterval
    /\ clock_stop = ClockStop + 2 * OutputInterval

\* C12: a check (model time > 0) that finds a core node changed by more than
\* the tolerance sets last_z to the current elevation, and adds
\* output_interval to clock.stop exactly when
\* model_time <= clock.stop - output_interval, leaving clock.stop as it is
\* otherwise; model time, elevation and the message are untouched.
C12_FailedCheckExtendsStop ==
    [][(/\ pc = "write_output"
        /\ model_time > 0
        /\ ~CoreChangeWithin(z, last_z))
       => (/\ last_z' = z
           /\ z' = z
           /\ model_time' = model_time
           /\ printed' = printed
           /\ (model_time <= clock_stop - OutputInterval
                  => clock_stop' = clock_stop + OutputInterval)
           /\ (model_time > clock_stop - OutputInterval
                  => clock_stop' = clock_stop))]_vars

\* a failed check that found clock.stop less than one output interval ahead
\* and left it there, last_z replaced
C12_Witness ==
    /\ pc = "loop"
    /\ chk.checked
    /\ ~chk.converged
    /\ chk.last_z # z
    /\ last_z = z
    /\ clock_stop - model_time = OutputInterval \div 2

----------------------------------------------------------------------------
(* Properties of the plot's node selection (SpecGrid) *)

\* the nodes next to n in the raster, diagonals included
EightNeighbours(sh, n) ==
    {m \in NodeIds(sh) \ {n} :
        /\ Abs((m \div sh[2]) - (n \div sh[2])) <= 1
        /\ Abs((m % sh[2]) - (n % sh[2])) <= 1}

IsBoundaryNode(st, n) == st[n] # "CORE"

\* C6: plotting_nodes holds, once each, exactly the core nodes none of whose
\* eight neighbours is a boundary node.
C6_PlottingNodesAwayFromBoundary ==
    gpc = "selected" =>
        LET wanted == {n \in NodeIds(shape) :
                          /\ ~IsBoundaryNode(status_at_node, n)
                          /\ \A m \in EightNeighbours(shape, n) :
                                ~IsBoundaryNode(status_at_node, m)}
        IN  /\ {plot_nodes[k] : k \in 1 .. Len(plot_nodes)} = wanted
            /\ Len(plot_nodes) = Cardinality(wanted)

\* a grid with a node to plot and, beside it, core nodes that are left out
C6_Witness ==
    /\ gpc = "selected"
    /\ Len(plot_nodes) >= 1
    /\ \E n \in NodeIds(shape) :
          /\ status_at_node[n] = "CORE"
          /\ \A k \in 1 .. Len(plot_nodes) : plot_nodes[k] # n

----------------------------------------------------------------------------
(* Properties of the Ku notebook (SpecKu) *)

\* C7: every update, get_value and set_value is made on an initialized
\* instance, every initialize is given what the latest setup on that instance
\* returned, and every get_value follows an update made since the latest
\* initialize.
C7_ProtocolOrder ==
    /\ kcall.op \in {"update", "get_value", "set_value"} => kcall.initialized
    /\ kcall.op = "initialize" =>
          /\ kcall.arg = kcall.latest_setup
          /\ kcall.arg[1] = kcall.inst
          /\ kcall.arg[2] >= 1
    /\ kcall.op = "get_value" => kcall.since_init >= 1

\* a get_value of the Part 4 loop, on the second instance, after Parts 1 to 3
C7_Witness ==
    /\ kcall.op = "get_value"
    /\ kcall.inst = 2
    /\ inst[1].inits >= 2
    /\ i >= 1

Calls(id) ==
    [setups |-> inst[id].setups, inits |-> inst[id].inits,
     updates |-> inst[id].updates]

\* C13: the first instance goes through setup, initialize, update five times
\* in a row, one update after each initialize; finalize is never called; from
\* Part 4's setup on ku is a second, new instance and the first one is not
\* called again.
C13_FiveRunsThenNewInstance ==
    /\ \A id \in InstanceIds : inst[id].finalizes = 0
    /\ inst[1].setups <= 5
    /\ inst[1].inits <= inst[1].setups
    /\ inst[1].inits >= inst[1].setups - 1
    /\ inst[1].updates <= inst[1].inits
    /\ inst[1].updates >= inst[1].inits - 1
    /\ inst[1].since_init <= 1
    /\ (kcall.inst = 1 /\ kcall.op = "setup" /\ inst[1].setups >= 2)
          => kcall.since_init = 1
    /\ inst[2].made =>
          /\ ku = 2
          /\ Calls(1) = [setups |-> 5, inits |-> 5, updates |-> 5]
          /\ inst[1].since_init = 1
          /\ kcall.inst = 2
          /\ inst[2].setups <= 1
          /\ inst[2].inits <= inst[2].setups
          /\ inst[2].updates > 0 => inst[2].inits = 1
    /\ kpc \notin {"idle", "cells"} =>
          /\ inst[2].made
          /\ Calls(2).setups = 1
          /\ Calls(2).inits = 1
          /\ inst[2].updates = inst[2].since_init

\* the Part 4 loop has updated the second instance, after the five runs on the
\* first
C13_Witness ==
    /\ kcall.op = "update"
    /\ kcall.inst = 2
    /\ inst[2].updates >= 2
    /\ Calls(1) = [setups |-> 5, inits |-> 5, updates |-> 5]

====
